---------------------------- MODULE Spec2Model ----------------------------
(***************************************************************************)
(* A model of lib/sbs_sklearn.py: train_n_test, the k-fold training and    *)
(* scoring loop, and build_polynomial_dataframe, the polynomial feature    *)
(* expansion.                                                              *)
(*                                                                         *)
(* Rows are numbered 0 .. len(y)-1 as numpy does.  A model, a metric and   *)
(* the scikit-learn splitter are collaborators: the splitter is modelled   *)
(* by what KFold(n_splits, shuffle=True).split does, the model and the     *)
(* metric by the calls made on them and by whether a call raises.          *)
(***************************************************************************)
EXTENDS Integers, Sequences, FiniteSets, TLC

VARIABLES
    pc,                 \* where the caller of train_n_test is: idle, loop, returned, raised
    n_rows,             \* len(y), the number of rows of X and y
    n_folds,            \* the n_folds argument: [type, val], val = int(n_folds)
    update_frequency_arg, \* the update_frequency argument: [given, val], None is not given
    update_frequency,   \* update_frequency after line 40
    train_on_minority,  \* the train_on_minority argument
    indices,            \* the shuffled row indices KFold draws for this call
    fold,               \* how many (train, test) pairs kfold.split has yielded
    scores,             \* the scores list of line 50
    notices,            \* the logging.info records emitted, in order
    fitted,             \* the row sets model.fit was called on, in order
    predicted,          \* the row sets model.predict was called on, in order
    scored,             \* the row sets metric was called on, in order
    result,             \* what the call returned: <<"none">> or <<"list", scores>>
    error,              \* the exception that left the call, "none" if none
    prev,               \* the log of the previous, completed call (see Again)
    data,               \* build_polynomial_dataframe: the data argument
    der,                \* build_polynomial_dataframe: the der argument
    poly_data,          \* build_polynomial_dataframe: the frame being built
    o,                  \* the degree the outer loop of line 120 is at
    tpl,                \* the column positions of the combination at hand
    poly_pc             \* idle, loop, returned

cv_vars == <<pc, n_rows, n_folds, update_frequency_arg, update_frequency, train_on_minority, indices,
             fold, scores, notices, fitted, predicted, scored, result, error, prev>>

poly_vars == <<data, der, poly_data, o, tpl, poly_pc>>

vars == <<cv_vars, poly_vars>>

(***************************************************************************)
(* Bounds of the model.                                                    *)
(***************************************************************************)
MaxRows == 4

MaxFreq == 3

MaxDer == 2

MaxPolyRows == 2

MaxCols == 3

(***************************************************************************)
(* Helpers.                                                                *)
(***************************************************************************)
Range(s) == {s[i] : i \in DOMAIN s}

Abs(a) == IF a < 0 THEN -a ELSE a

\* The permutations of 0 .. n-1: what rng.shuffle(np.arange(n)) can leave.
Shuffles(n) == {p \in [1..n -> 0..(n - 1)] : Range(p) = 0..(n - 1)}

NoResult == <<"none">>

NoPrev == [done |-> FALSE, minority |-> FALSE, fitted |-> <<>>, scored |-> <<>>]

(***************************************************************************)
(* The arguments a caller may pass.                                        *)
(***************************************************************************)
\* n_folds: a Python int, a float (2.5, int(2.5) = 2) or a bool (True, int(True) = 1).
NFoldsArgs ==
    [type : {"int"}, val : (-1)..(MaxRows + 1)]
        \cup {[type |-> "float", val |-> 2], [type |-> "bool", val |-> 1]}

\* update_frequency: None, or an int.
UpdateFrequencyArgs ==
    {[given |-> FALSE, val |-> 0]} \cup [given : {TRUE}, val : 0..MaxFreq]

(***************************************************************************)
(* train_n_test, line 40: update_frequency or len(y) - 1.  None and 0 are  *)
(* both falsy.                                                             *)
(***************************************************************************)
\* A default taken from the row count itself.
DefaultIsRowCount(n) == n

DefaultUpdateFrequency(n) == n - 1

EffectiveUpdateFrequency(uf, n) ==
    IF uf.given /\ uf.val # 0 THEN uf.val ELSE DefaultUpdateFrequency(n)

(***************************************************************************)
(* Line 47: assert type(n_folds)==int.                                     *)
(***************************************************************************)
\* The type check left out.
TypeUnchecked(nf) == TRUE

TypeIsInt(nf) == nf.type = "int"

(***************************************************************************)
(* Line 48 and line 51: KFold(n_splits=int(n_folds), shuffle=True) and     *)
(* kfold.split(Xm, y).  The constructor raises ValueError for              *)
(* n_splits <= 1, split raises ValueError for n_splits > n_samples.  The   *)
(* first n % k folds hold n // k + 1 rows, the others n // k; fold j tests *)
(* on the j-th run of the shuffled indices and trains on all other rows.   *)
(***************************************************************************)
KFoldRejects(k, n) == k <= 1 \/ k > n

FoldSize(n, k, j) == (n \div k) + (IF j <= n % k THEN 1 ELSE 0)

RECURSIVE FoldStart(_, _, _)
FoldStart(n, k, j) == IF j <= 1 THEN 0 ELSE FoldStart(n, k, j - 1) + FoldSize(n, k, j - 1)

\* A splitter that never advances past the first run of the shuffle.
KFoldTestFirstRun(n, k, ind, j) == {ind[p] : p \in 1..FoldSize(n, k, j)}

KFoldTest(n, k, ind, j) ==
    {ind[p] : p \in (FoldStart(n, k, j) + 1)..(FoldStart(n, k, j) + FoldSize(n, k, j))}

\* Training on every row, the test rows included.
KFoldTrainAllRows(n, k, ind, j) == 0..(n - 1)

KFoldTrain(n, k, ind, j) == (0..(n - 1)) \ KFoldTest(n, k, ind, j)

(***************************************************************************)
(* Lines 53-54: the pair the loop body works with.                         *)
(***************************************************************************)
\* The swap of line 54 applied to test only.
TrainOfUnswapped(minority, n, k, ind, j) == KFoldTrain(n, k, ind, j)

TrainOf(minority, n, k, ind, j) ==
    IF minority THEN KFoldTest(n, k, ind, j) ELSE KFoldTrain(n, k, ind, j)

TestOf(minority, n, k, ind, j) ==
    IF minority THEN KFoldTrain(n, k, ind, j) ELSE KFoldTest(n, k, ind, j)

(***************************************************************************)
(* Line 56: len(scores) % update_frequency == 0.  Python's % with a        *)
(* negative divisor is zero exactly when the divisor divides.              *)
(***************************************************************************)
NoticeDue(count, uf) == count % Abs(uf) = 0

\* Lines 58-62: the record logged, study number and the two sizes.
Notice(count, train, test) ==
    [study |-> count + 1, train |-> Cardinality(train), test |-> Cardinality(test)]

(***************************************************************************)
(* Lines 66-69: the number the metric returns is a function of the rows    *)
(* the model was fitted on and the rows it was tested on.                  *)
(***************************************************************************)
Score(train, test) == [trained_on |-> train, tested_on |-> test]

\* Lines 64-69 stand in no try block: what a collaborator raises leaves the call.
\* The failure logged and the loop carried on.
Swallow(e) == [pc |-> "loop", error |-> e]

Propagate(e) == [pc |-> "raised", error |-> e]

\* Line 51: the loop ends when kfold.split has yielded n_splits pairs.
\* A loop that stops one fold short.
ExhaustedEarly(count, k) == count = k - 1

Exhausted(count, k) == count = k

(***************************************************************************)
(* The call, lines 40-50 and the start of the loop at line 51.             *)
(***************************************************************************)
Enter(n, nf, uf, minority, ind, log) ==
    /\ n_rows' = n
    /\ n_folds' = nf
    /\ update_frequency_arg' = uf
    /\ update_frequency' = EffectiveUpdateFrequency(uf, n)
    /\ train_on_minority' = minority
    /\ indices' = ind
    /\ fold' = 0
    /\ scores' = <<>>
    /\ notices' = <<>>
    /\ fitted' = <<>>
    /\ predicted' = <<>>
    /\ scored' = <<>>
    /\ result' = NoResult
    /\ prev' = log
    /\ IF ~TypeIsInt(nf)
         THEN pc' = "raised" /\ error' = "AssertionError"
         ELSE IF KFoldRejects(nf.val, n)
                THEN pc' = "raised" /\ error' = "ValueError"
                ELSE pc' = "loop" /\ error' = "none"

train_n_test ==
    /\ pc = "idle"
    /\ \E n \in 0..MaxRows, nf \in NFoldsArgs, uf \in UpdateFrequencyArgs,
          minority \in BOOLEAN :
         \E ind \in Shuffles(n) : Enter(n, nf, uf, minority, ind, NoPrev)
    /\ UNCHANGED poly_vars

(***************************************************************************)
(* One pass of the loop body, lines 51-71.  outcome says which call, if    *)
(* any, raises in this fold.                                               *)
(***************************************************************************)
LoopBody ==
    /\ pc = "loop"
    /\ ~Exhausted(fold, n_folds.val)
    /\ \E outcome \in {"ok", "fit", "predict", "metric"} :
         LET train == TrainOf(train_on_minority, n_rows, n_folds.val, indices, fold + 1)
             test  == TestOf(train_on_minority, n_rows, n_folds.val, indices, fold + 1)
             after == IF outcome = "ok" THEN [pc |-> "loop", error |-> error]
                                        ELSE Propagate(outcome)
         IN
           /\ fold' = fold + 1
           /\ IF update_frequency = 0
                THEN /\ pc' = "raised"
                     /\ error' = "ZeroDivisionError"
                     /\ UNCHANGED <<notices, fitted, predicted, scored, scores>>
                ELSE /\ notices' = IF NoticeDue(Len(scores), update_frequency)
                                     THEN Append(notices, Notice(Len(scores), train, test))
                                     ELSE notices
                     /\ fitted' = Append(fitted, train)
                     /\ predicted' = IF outcome = "fit" THEN predicted
                                                        ELSE Append(predicted, test)
                     /\ scored' = IF outcome \in {"fit", "predict"} THEN scored
                                                                   ELSE Append(scored, test)
                     /\ scores' = IF outcome = "ok" THEN Append(scores, Score(train, test))
                                                    ELSE scores
                     /\ pc' = after.pc
                     /\ error' = after.error
    /\ UNCHANGED <<n_rows, n_folds, update_frequency_arg, update_frequency, train_on_minority, indices,
                   result, prev>>
    /\ UNCHANGED poly_vars

\* Line 73: return scores.
Return ==
    /\ pc = "loop"
    /\ Exhausted(fold, n_folds.val)
    /\ pc' = "returned"
    /\ result' = <<"list", scores>>
    /\ UNCHANGED <<n_rows, n_folds, update_frequency_arg, update_frequency, train_on_minority, indices,
                   fold, scores, notices, fitted, predicted, scored, error, prev>>
    /\ UNCHANGED poly_vars

(***************************************************************************)
(* The caller repeats a completed call on the same X and y with the same   *)
(* n_folds and the random generator seeded as before, so that KFold draws  *)
(* the same shuffle; update_frequency and train_on_minority are chosen     *)
(* anew.  The log of the completed call is kept for comparison.            *)
(***************************************************************************)
Again ==
    /\ pc = "returned"
    /\ ~prev.done
    /\ \E uf \in UpdateFrequencyArgs, minority \in BOOLEAN :
         Enter(n_rows, n_folds, uf, minority, indices,
               [done |-> TRUE, minority |-> train_on_minority,
                fitted |-> fitted, scored |-> scored])
    /\ UNCHANGED poly_vars

CvInit ==
    /\ pc = "idle"
    /\ n_rows = 0
    /\ n_folds = [type |-> "int", val |-> 0]
    /\ update_frequency_arg = [given |-> FALSE, val |-> 0]
    /\ update_frequency = 0
    /\ train_on_minority = FALSE
    /\ indices = <<>>
    /\ fold = 0
    /\ scores = <<>>
    /\ notices = <<>>
    /\ fitted = <<>>
    /\ predicted = <<>>
    /\ scored = <<>>
    /\ result = NoResult
    /\ error = "none"
    /\ prev = NoPrev

PolyIdle ==
    /\ data = <<>>
    /\ der = 0
    /\ poly_data = <<>>
    /\ o = 0
    /\ tpl = <<>>
    /\ poly_pc = "idle"

Init == CvInit /\ PolyIdle

Next == train_n_test \/ LoopBody \/ Return \/ Again

Spec == Init /\ [][Next]_vars


(***************************************************************************)
(* build_polynomial_dataframe.  A DataFrame is its columns in order, each  *)
(* a name and the values of its rows; column names are unique.             *)
(***************************************************************************)
ColumnNames == {"a", "b", "a_x_b"}

Values == {1, 2}

NameOrders ==
    UNION {{c \in [1..m -> ColumnNames] : \A i, j \in 1..m : c[i] = c[j] => i = j} :
           m \in 1..MaxCols}

DataFrames ==
    UNION {{[i \in DOMAIN c |-> [name |-> c[i], vals |-> v[i]]] :
            v \in [DOMAIN c -> [1..r -> Values]]} :
           c \in NameOrders, r \in 1..MaxPolyRows}

columns(frame) == [i \in DOMAIN frame |-> frame[i].name]

NRows(frame) == IF frame = <<>> THEN 0 ELSE Len(frame[1].vals)

(***************************************************************************)
(* Line 121: itertools.combinations_with_replacement(data.columns, o), the *)
(* non-decreasing position tuples in lexicographic order.  The first is    *)
(* all first positions; the next raises the rightmost position that is not *)
(* the last one and sets every position after it to the same.              *)
(***************************************************************************)
FirstCombination(r) == [i \in 1..r |-> 1]

HasNextCombination(c, m) == \E i \in DOMAIN c : c[i] # m

NextCombination(c, m) ==
    LET i == CHOOSE k \in DOMAIN c : c[k] # m /\ \A l \in DOMAIN c : l > k => c[l] = m
    IN  [j \in DOMAIN c |-> IF j < i THEN c[j] ELSE c[i] + 1]

\* Lines 120-121: where the two loops start and where they go next; the
\* loops are over once o is past der.
FirstPosition(m, d) ==
    IF d >= 1 /\ m >= 1 THEN [o |-> 1, tpl |-> FirstCombination(1)]
                        ELSE [o |-> (IF d >= 1 THEN d ELSE 0) + 1, tpl |-> <<>>]

NextPosition(deg, c, m, d) ==
    IF HasNextCombination(c, m) THEN [o |-> deg, tpl |-> NextCombination(c, m)]
    ELSE IF deg + 1 <= d THEN [o |-> deg + 1, tpl |-> FirstCombination(deg + 1)]
    ELSE [o |-> d + 1, tpl |-> <<>>]

\* Line 122: "_x_".join(tpl).
RECURSIVE Join(_)
Join(names) ==
    IF Len(names) = 1 THEN names[1]
    ELSE names[1] \o "_x_" \o Join(Tail(names))

\* Line 123: data[list(tpl)].prod(axis=1), the row-wise product of the
\* columns tpl names, a column taken as often as tpl names it.
RECURSIVE RowProduct(_, _, _)
RowProduct(frame, c, r) ==
    IF c = <<>> THEN 1
    ELSE frame[Head(c)].vals[r] * RowProduct(frame, Tail(c), r)

Prod(frame, c) == [r \in 1..NRows(frame) |-> RowProduct(frame, c, r)]

\* Every assignment adds a column at the end.
SetItemAppends(frame, name, vals) == Append(frame, [name |-> name, vals |-> vals])

\* Line 123: poly_data[name] = ...: a column of that name is given the new
\* values where it stands; without one, a new column is added at the end.
SetItem(frame, name, vals) ==
    IF \E i \in DOMAIN frame : frame[i].name = name
      THEN [i \in DOMAIN frame |->
              IF frame[i].name = name THEN [name |-> name, vals |-> vals] ELSE frame[i]]
      ELSE Append(frame, [name |-> name, vals |-> vals])

\* Lines 119-120: poly_data = data.copy(), and the loops are entered.
build_polynomial_dataframe ==
    /\ poly_pc = "idle"
    /\ \E frame \in DataFrames, d \in (-1)..MaxDer :
         /\ data' = frame
         /\ der' = d
         /\ poly_data' = frame
         /\ o' = FirstPosition(Len(frame), d).o
         /\ tpl' = FirstPosition(Len(frame), d).tpl
    /\ poly_pc' = "loop"
    /\ UNCHANGED cv_vars

\* Lines 122-123 for the combination at hand.
AddTerm ==
    /\ poly_pc = "loop"
    /\ o <= der
    /\ poly_data' = SetItem(poly_data, Join([i \in DOMAIN tpl |-> columns(data)[tpl[i]]]),
                            Prod(data, tpl))
    /\ o' = NextPosition(o, tpl, Len(data), der).o
    /\ tpl' = NextPosition(o, tpl, Len(data), der).tpl
    /\ UNCHANGED <<data, der, poly_pc>>
    /\ UNCHANGED cv_vars

\* Line 124: return poly_data.
ReturnFrame ==
    /\ poly_pc = "loop"
    /\ o > der
    /\ poly_pc' = "returned"
    /\ UNCHANGED <<data, der, poly_data, o, tpl>>
    /\ UNCHANGED cv_vars

PolyNext == build_polynomial_dataframe \/ AddTerm \/ ReturnFrame

PolySpec == Init /\ [][PolyNext]_vars

(***************************************************************************)
(* Properties of build_polynomial_dataframe.                               *)
(***************************************************************************)
FrameReturned == poly_pc = "returned"

\* The non-decreasing position tuples of size r over m columns.
Combinations(m, r) ==
    {c \in [1..r -> 1..m] : \A i, j \in 1..r : i <= j => c[i] <= c[j]}

\* C3, as claimed: no frame is returned for a negative der.
C3_Original == FrameReturned => der >= 0

C7_Original ==
    (FrameReturned /\ der >= 0) =>
        /\ \A i \in DOMAIN data : \E j \in DOMAIN poly_data : poly_data[j] = data[i]
        /\ \A r \in 1..der : \A c \in Combinations(Len(data), r) :
             \E j \in DOMAIN poly_data :
                poly_data[j] = [name |-> Join([i \in DOMAIN c |-> columns(data)[c[i]]]),
                                vals |-> Prod(data, c)]


(***************************************************************************)
(* Properties of train_n_test.                                             *)
(***************************************************************************)
Rows == 0..(n_rows - 1)

Returned == pc = "returned"

CollaboratorErrors == {"fit", "predict", "metric"}

\* The zero-based fold indices at which a notice was logged.
NoticeIndices == {notices[i].study - 1 : i \in DOMAIN notices}

Divides(d, i) == \E q \in 0..i : q * Abs(d) = i

\* In how many of the row sets of log a row lies.
Uses(log, r) == Cardinality({i \in DOMAIN log : r \in log[i]})

C2_BadFoldCountRejected ==
    (pc # "idle" /\ (n_folds.type # "int" \/ n_folds.val = 0)) =>
        /\ pc = "raised"
        /\ error \in {"AssertionError", "ValueError"}
        /\ fitted = <<>>
        /\ predicted = <<>>
        /\ scored = <<>>
        /\ notices = <<>>
        /\ scores = <<>>
        /\ result = NoResult

C2_Witness ==
    /\ pc = "raised"
    /\ n_folds.type = "float"
    /\ error = "AssertionError"
    /\ n_rows >= 2

\* C4: in every fold, the rows fitted on and the rows predicted and scored on
\* are disjoint and together are all the rows, with train_on_minority set or
\* not.
C4_FoldPartitionsRows ==
    /\ \A i \in DOMAIN fitted :
         i \in DOMAIN predicted =>
            /\ fitted[i] \cap predicted[i] = {}
            /\ fitted[i] \cup predicted[i] = Rows
    /\ \A i \in DOMAIN scored : scored[i] = predicted[i]

C4_Witness ==
    /\ Returned
    /\ train_on_minority
    /\ n_rows = 3
    /\ n_folds.val = 2
    /\ prev.done
    /\ ~prev.minority

\* C5, as claimed: over a complete run every row is in the scored set of
\* exactly one fold.
C5_Original ==
    Returned => \A r \in Rows : Uses(scored, r) = 1

\* C5, amended: over a complete run without train_on_minority every row is
\* scored in exactly one fold; with train_on_minority every row is fitted on
\* in exactly one fold and scored in n_folds - 1 folds.
C5_TestSetsCoverOnce ==
    Returned =>
        \A r \in Rows :
            IF train_on_minority
              THEN Uses(fitted, r) = 1 /\ Uses(scored, r) = n_folds.val - 1
              ELSE Uses(scored, r) = 1 /\ Uses(fitted, r) = n_folds.val - 1

C5_Witness ==
    /\ Returned
    /\ train_on_minority
    /\ n_folds.val = 3
    /\ n_rows = 4

\* C8: two complete runs on the same shuffle, one with train_on_minority and
\* one without: in every fold the rows one run fits on are the rows the other
\* scores on.
C8_SwapIsComplement ==
    (Returned /\ prev.done /\ prev.minority # train_on_minority) =>
        /\ Len(fitted) = Len(prev.fitted)
        /\ Len(scored) = Len(prev.scored)
        /\ \A i \in DOMAIN fitted :
             /\ fitted[i] = prev.scored[i]
             /\ scored[i] = prev.fitted[i]

C8_Witness ==
    /\ Returned
    /\ prev.done
    /\ train_on_minority
    /\ ~prev.minority
    /\ n_folds.val = 3
    /\ n_rows = 4

\* The call has ended at the failing collaborator call.
EndedAtFailure ==
    /\ pc = "raised"
    /\ result = NoResult
    /\ Len(fitted) = Len(scores) + 1
    /\ Len(predicted) = Len(scores) + (IF error = "fit" THEN 0 ELSE 1)
    /\ Len(scored) = Len(scores) + (IF error = "metric" THEN 1 ELSE 0)

NothingAfterFailure ==
    UNCHANGED <<pc, error, fitted, predicted, scored, scores, notices, result>>

\* C9: once fit, predict or the metric has raised in a fold, the call has
\* ended with that exception and without a result, the calls made are those
\* up to the failing one, and nothing is called or collected afterwards.
C9_FailFast ==
    /\ [](error \in CollaboratorErrors => EndedAtFailure)
    /\ [][(error \in CollaboratorErrors) => NothingAfterFailure]_vars

C9_Witness ==
    /\ error = "predict"
    /\ pc = "raised"
    /\ Len(scores) = 1
    /\ n_folds.val = 3

\* C10, as claimed: without an update_frequency argument a complete run logs
\* a notice at fold index 0 and at fold index n_folds - 1 and at no other.
C10_Original ==
    (Returned /\ ~update_frequency_arg.given) =>
        NoticeIndices = {0, n_folds.val - 1}

\* C10, amended: a notice is logged before the fit of exactly the folds whose
\* zero-based index update_frequency divides; without the argument
\* update_frequency is len(y) - 1, so a complete run logs at fold index 0, and
\* at fold index n_folds - 1 when n_folds = len(y), and at no other.
C10_NoticeSchedule ==
    /\ pc \in {"loop", "returned"} =>
          /\ NoticeIndices = {i \in 0..(Len(fitted) - 1) : Divides(update_frequency, i)}
          /\ Len(notices) = Cardinality(NoticeIndices)
    /\ (pc # "idle" /\ ~update_frequency_arg.given) => update_frequency = n_rows - 1
    /\ (Returned /\ ~update_frequency_arg.given) =>
          NoticeIndices = {0} \cup (IF n_folds.val = n_rows THEN {n_folds.val - 1} ELSE {})

C10_Witness ==
    /\ Returned
    /\ ~update_frequency_arg.given
    /\ n_rows = 3
    /\ n_folds.val = 2
    /\ NoticeIndices = {0}

=============================================================================
